---- MODULE Spec2Model ----
(***************************************************************************)
(* A model of blaster/template.go of chfanghr/blast-kupo: the compiler     *)
(* parseRenderer, the renderer tree (mapR, sliceR, templateR, nativeR),    *)
(* and the random generators bound into the template namespace.            *)
(*                                                                         *)
(* Go values are tagged records.  A function with several possible         *)
(* results (a random draw, Go's random map iteration order) is an operator *)
(* that yields the SET of its possible results; the action that calls it   *)
(* picks one.  A result is [v |-> value, err |-> error], as Go's           *)
(* (value, error) pair; a panicking primitive yields [panic |-> TRUE].     *)
(***************************************************************************)
EXTENDS Integers, Sequences, FiniteSets, TLC

VARIABLES
    raw, pc, compiled, data, result,      \* compile, then render
    wpc, wdata, wdone, wout, wres, rng,   \* concurrent render calls
    riFrom, riTo, riRes,                  \* a call of randInt
    sources, invoked, shufRes,            \* a call of shuffleSources
    perIteration, assetRes                \* a call of randAssetPattern

mainVars  == <<raw, pc, compiled, data, result>>
concVars  == <<wpc, wdata, wdone, wout, wres, rng>>
intVars   == <<riFrom, riTo, riRes>>
shufVars  == <<sources, invoked, shufRes>>
assetVars == <<perIteration, assetRes>>
vars == <<mainVars, concVars, intVars, shufVars, assetVars>>

---------------------------------------------------------------------------
(* Bounds of the model.                                                    *)

\* Width of the machine integer of the model (Go's int has 64 bits).
IntWidth == 4
\* Longest raw sequence.
MaxLen == 2
\* Longest list handed to shuffleSources in its own specification.
MaxSources == 5
\* Number of concurrent render calls.
NumWorkers == 2
\* Number of states of the process-wide random source.
RngStates == 3

---------------------------------------------------------------------------
(* Go values.                                                              *)

\* nil: the raw null, the absent renderer and the nil interface{} are the
\* same Go value.
Nil == [t |-> "null"]
NoErr == "nil"

RawInt == [t |-> "int", i |-> 42]
RawBool == [t |-> "bool", b |-> TRUE]
\* A value of a type parseRenderer's switch does not list, e.g. []string.
RawOther == [t |-> "other", id |-> "[]string"]
RawString(src) == [t |-> "string", src |-> src]

Min(S) == CHOOSE x \in S : \A y \in S : x <= y

\* All ways to pick one result per child: sub maps each key (or index) to
\* the set of the child's possible results.
Choices(sub) ==
    {f \in [DOMAIN sub -> UNION {sub[k] : k \in DOMAIN sub}] :
        \A k \in DOMAIN sub : f[k] \in sub[k]}

Values(f) == [k \in DOMAIN f |-> f[k].v]

\* The errors the children can end with.
Failures(sub, k) == {o.err : o \in {p \in sub[k] : p.err # NoErr}}
CanSucceed(sub, k) == \E p \in sub[k] : p.err = NoErr

---------------------------------------------------------------------------
(* math/rand and the random primitives.                                    *)

MinInt == -(2 ^ (IntWidth - 1))
MaxInt == (2 ^ (IntWidth - 1)) - 1
Ints == MinInt .. MaxInt
\* Two's complement wrap-around of Go's int arithmetic.
Wrap(x) == ((x - MinInt) % (2 ^ IntWidth)) + MinInt

Panic == [panic |-> TRUE, val |-> 0]
\* rand.Intn(n): panics when n <= 0, else a value of 0 .. n-1.
Intn(n) == IF n <= 0 THEN {Panic} ELSE {[panic |-> FALSE, val |-> r] : r \in 0 .. n - 1}

randInt(from, to) ==
    {IF d.panic THEN Panic ELSE [panic |-> FALSE, val |-> Wrap(d.val + from)] :
        d \in Intn(Wrap(to - from))}

\* The alphabets, one rune of each class of the literal: a-f, A-F, 0-9.
HexAlphabet == {"a", "F", "0"}
\* a-z, A-Z.
LetterAlphabet == {"a", "z", "Z"}

\* A string made of random runes is its length and the set of runes that
\* occur in it.
PanicStr == [panic |-> TRUE, len |-> 0, runes |-> {}]
randStringWithAlphabet(alphabet, length) ==
    IF length < 0 THEN {PanicStr}   \* make([]rune, length) panics
    ELSE {[panic |-> FALSE, len |-> length, runes |-> R] :
            R \in {S \in SUBSET alphabet :
                    /\ (length = 0) = (S = {})
                    /\ Cardinality(S) <= length}}

randHexString(length) == randStringWithAlphabet(HexAlphabet, length)
randString(length) == randStringWithAlphabet(LetterAlphabet, length)

---------------------------------------------------------------------------
(* text/template.  A template source is a sequence of tokens: "{{" and     *)
(* "}}" are the delimiters, a token of Fields is a field of the data, a    *)
(* token of Numbers an integer literal, any other token inside an action   *)
(* an identifier, and any token outside an action literal text.            *)

Fields == {".user", ".id"}
FieldKey(f) == IF f = ".user" THEN "user" ELSE "id"
Numbers == {"-1", "1", "3"}
NumVal(tok) == CASE tok = "-1" -> -1 [] tok = "1" -> 1 [] tok = "3" -> 3

builtins ==
    {"rand_int", "rand_string", "rand_float", "rand_datum_hash", "rand_address",
     "rand_credential", "rand_asset", "rand_output_ref", "rand_metadata_tag"}
\* The number of parameters of each function of builtins.
NumIn(fn) ==
    CASE fn \in {"rand_int", "rand_float"} -> 2
      [] fn = "rand_string" -> 1
      [] OTHER -> 0

TextNode(s) == [kind |-> "text", cmd |-> <<s>>]
ActionNode(cmd) == [kind |-> "action", cmd |-> cmd]

\* Template.Parse from token i on; nodes are the nodes parsed so far.  An
\* action that is not closed, an empty action and an identifier that is no
\* function of the namespace are syntax errors.
RECURSIVE ParseFrom(_, _, _)
ParseFrom(src, i, nodes) ==
    IF i > Len(src) THEN [v |-> nodes, err |-> NoErr]
    ELSE IF src[i] # "{{" THEN ParseFrom(src, i + 1, Append(nodes, TextNode(src[i])))
    ELSE LET closers == {j \in i + 1 .. Len(src) : src[j] = "}}"}
             j == Min(closers)
             cmd == SubSeq(src, i + 1, j - 1)
         IN  IF closers = {} THEN [v |-> <<>>, err |-> "unclosed action"]
             ELSE IF cmd = <<>> THEN [v |-> <<>>, err |-> "missing value for command"]
             ELSE IF \E a \in 1 .. Len(cmd) :
                        cmd[a] \notin Fields \cup Numbers \cup builtins
                  THEN [v |-> <<>>, err |-> "function not defined"]
             ELSE ParseFrom(src, j + 1, Append(nodes, ActionNode(cmd)))

Parse(src) == ParseFrom(src, 1, <<>>)

\* The pieces of an executed template's output.
TextPart(s) == [kind |-> "text", s |-> s, n |-> 0, runes |-> {}]
IntPart(n) == [kind |-> "int", s |-> "", n |-> n, runes |-> {}]
RunesPart(len, runes) == [kind |-> "runes", s |-> "", n |-> len, runes |-> runes]
\* The output of a generator the model does not look into: some string.
GenPart(fn) == [kind |-> "gen", s |-> fn, n |-> 0, runes |-> {}]
NoValue == TextPart("<no value>")

\* evalField on the data map under the option missingkey=error.
evalFieldStrict(field, d) ==
    IF FieldKey(field) \in DOMAIN d
    THEN {[v |-> TextPart(d[FieldKey(field)]), err |-> NoErr]}
    ELSE {[v |-> NoValue, err |-> "map has no entry for key"]}
\* evalField on the data map: template.New("t") sets no option, so a key
\* the map lacks is the invalid value, printed as <no value>.
evalField(field, d) ==
    IF FieldKey(field) \in DOMAIN d
    THEN {[v |-> TextPart(d[FieldKey(field)]), err |-> NoErr]}
    ELSE {[v |-> NoValue, err |-> NoErr]}

\* safeCall: a panic of the called function is returned as an error.
safeCall(fn, args) ==
    CASE fn = "rand_int" ->
            {IF o.panic THEN [v |-> NoValue, err |-> "error calling rand_int"]
                        ELSE [v |-> IntPart(o.val), err |-> NoErr] :
                o \in randInt(args[1], args[2])}
      [] fn = "rand_string" ->
            {IF o.panic THEN [v |-> NoValue, err |-> "error calling rand_string"]
                        ELSE [v |-> RunesPart(o.len, o.runes), err |-> NoErr] :
                o \in randString(args[1])}
      [] OTHER -> {[v |-> GenPart(fn), err |-> NoErr]}

\* evalCommand of one action.
evalCommand(cmd, d) ==
    LET args == SubSeq(cmd, 2, Len(cmd))
    IN  IF cmd[1] \in Fields
        THEN IF args # <<>>
             THEN {[v |-> NoValue, err |-> "is not a method but has arguments"]}
             ELSE evalField(cmd[1], d)
        ELSE IF cmd[1] \in Numbers
        THEN IF args # <<>>
             THEN {[v |-> NoValue, err |-> "can't give argument to non-function"]}
             ELSE {[v |-> IntPart(NumVal(cmd[1])), err |-> NoErr]}
        ELSE IF Len(args) # NumIn(cmd[1])
        THEN {[v |-> NoValue, err |-> "wrong number of args"]}
        ELSE IF \E a \in 1 .. Len(args) : args[a] \notin Numbers
        THEN {[v |-> NoValue, err |-> "wrong type for value"]}
        ELSE safeCall(cmd[1], [a \in 1 .. Len(args) |-> NumVal(args[a])])

\* Runs the children in order and stops at the first error; the results
\* before it are dropped with it.
InOrder(sub) ==
    {[v |-> Values(f), err |-> NoErr] :
        f \in {g \in Choices(sub) : \A k \in DOMAIN g : g[k].err = NoErr}}
    \cup
    {[v |-> Nil, err |-> e] :
        e \in UNION {IF \A j \in 1 .. i - 1 : CanSucceed(sub, j)
                     THEN Failures(sub, i) ELSE {} : i \in DOMAIN sub}}

\* Template.Execute: the nodes in order, into the buffer.
Execute(tmpl, d) ==
    InOrder([i \in 1 .. Len(tmpl) |->
                IF tmpl[i].kind = "text"
                THEN {[v |-> TextPart(tmpl[i].cmd[1]), err |-> NoErr]}
                ELSE evalCommand(tmpl[i].cmd, d)])

---------------------------------------------------------------------------
(* The compiler.                                                           *)

\* Runs the children in Go's map iteration order, which is any order, and
\* stops at the first error: each child that can fail can be the first.
AnyOrder(sub) ==
    {[v |-> Values(f), err |-> NoErr] :
        f \in {g \in Choices(sub) : \A k \in DOMAIN g : g[k].err = NoErr}}
    \cup
    {[v |-> Nil, err |-> e] : e \in UNION {Failures(sub, k) : k \in DOMAIN sub}}

mapR(m) == [t |-> "mapR", m |-> m]
sliceR(e) == [t |-> "sliceR", e |-> e]
templateR(tmpl) == [t |-> "templateR", tmpl |-> tmpl]
nativeR(native) == [t |-> "nativeR", native |-> native]

\* The map case that skips a child that fails to compile.
parseMapSkipping(sub) ==
    {[v |-> mapR([k \in DOMAIN f |-> IF f[k].err = NoErr THEN f[k].v ELSE Nil]),
      err |-> NoErr] : f \in Choices(sub)}
\* case map[string]interface{}: sub holds the results of the children.
parseMap(sub) ==
    {IF o.err = NoErr THEN [v |-> mapR(o.v), err |-> NoErr] ELSE o : o \in AnyOrder(sub)}

\* case []interface{}.
parseSlice(sub) ==
    {IF o.err = NoErr THEN [v |-> sliceR(o.v), err |-> NoErr] ELSE o : o \in InOrder(sub)}

\* case string.
parseString(src) ==
    IF Parse(src).err # NoErr
    THEN {[v |-> Nil, err |-> Parse(src).err]}
    ELSE {[v |-> templateR(Parse(src).v), err |-> NoErr]}

RECURSIVE parseRenderer(_)
parseRenderer(in) ==
    CASE in.t = "null" -> {[v |-> Nil, err |-> NoErr]}
      [] in.t = "map" -> parseMap([k \in DOMAIN in.m |-> parseRenderer(in.m[k])])
      [] in.t = "slice" -> parseSlice([i \in DOMAIN in.e |-> parseRenderer(in.e[i])])
      [] in.t = "string" -> parseString(in.src)
      [] in.t \in {"bool", "int"} -> {[v |-> nativeR(in), err |-> NoErr]}
      [] OTHER -> {[v |-> Nil, err |-> NoErr]}

---------------------------------------------------------------------------
(* The renderers.                                                          *)

\* v.(renderer): nil is no renderer.
IsRenderer(v) == v.t \in {"mapR", "sliceR", "templateR", "nativeR"}

\* mapR.render that hands back what it has filled in along with the error.
mapR_renderPartial(sub) ==
    {IF o.err = NoErr THEN [v |-> [t |-> "map", m |-> o.v], err |-> NoErr]
                      ELSE [v |-> [t |-> "map", m |-> <<>>], err |-> o.err] :
        o \in AnyOrder(sub)}
\* mapR.render: sub holds the results of the children.
mapR_render(sub) ==
    {IF o.err = NoErr THEN [v |-> [t |-> "map", m |-> o.v], err |-> NoErr] ELSE o :
        o \in AnyOrder(sub)}

sliceR_render(sub) ==
    {IF o.err = NoErr THEN [v |-> [t |-> "slice", e |-> o.v], err |-> NoErr] ELSE o :
        o \in InOrder(sub)}

templateR_render(tmpl, d) ==
    {IF o.err = NoErr THEN [v |-> [t |-> "rendered", parts |-> o.v], err |-> NoErr] ELSE o :
        o \in Execute(tmpl, d)}

nativeR_render(native) == {[v |-> native, err |-> NoErr]}

RECURSIVE render(_, _)
\* The loop body of mapR.render and sliceR.render: a child that is a
\* renderer is rendered, any other child is copied.
renderChild(v, d) == IF IsRenderer(v) THEN render(v, d) ELSE {[v |-> v, err |-> NoErr]}

render(r, d) ==
    CASE r.t = "mapR" -> mapR_render([k \in DOMAIN r.m |-> renderChild(r.m[k], d)])
      [] r.t = "sliceR" -> sliceR_render([i \in DOMAIN r.e |-> renderChild(r.e[i], d)])
      [] r.t = "templateR" -> templateR_render(r.tmpl, d)
      [] r.t = "nativeR" -> nativeR_render(r.native)

---------------------------------------------------------------------------
(* The raw trees and contexts of the model.                                *)

StrPlain == RawString(<<"addr1">>)
StrOK == RawString(<<"id-", "{{", "rand_int", "1", "3", "}}">>)
StrVar == RawString(<<"hello ", "{{", ".user", "}}">>)
StrRunes == RawString(<<"addr1", "{{", "rand_string", "3", "}}">>)
StrGen == RawString(<<"{{", "rand_datum_hash", "}}">>)
StrStray == RawString(<<"}}", "{{", "3", "}}">>)
\* Templates that parse and fail when executed.
StrExecFail == RawString(<<"{{", "rand_int", "3", "3", "}}">>)
StrNegLen == RawString(<<"x", "{{", "rand_string", "-1", "}}">>)
StrArity == RawString(<<"{{", "rand_int", "1", "}}">>)
StrVarArg == RawString(<<"{{", "rand_string", ".user", "}}">>)
\* Templates with a syntax error.
StrUnclosed == RawString(<<"{{", "rand_int", "1", "3">>)
StrUndefined == RawString(<<"{{", "nofunc", "}}">>)
StrEmpty == RawString(<<"x", "{{", "}}">>)

InvalidSyntax == {StrUnclosed, StrUndefined, StrEmpty}
ExecFailing == {StrExecFail, StrNegLen, StrArity, StrVarArg}

InnerLeaves == {Nil, RawInt, RawOther, StrOK, StrVar, StrExecFail, StrUnclosed}
Leaves ==
    InnerLeaves \cup InvalidSyntax \cup ExecFailing
        \cup {RawBool, StrPlain, StrRunes, StrGen, StrStray}

Keys == {"a", "b"}
RawMap(m) == [t |-> "map", m |-> m]
RawSlice(e) == [t |-> "slice", e |-> e]
MapsOver(C) == {RawMap(m) : m \in UNION {[K -> C] : K \in SUBSET Keys}}
SlicesOver(C) == {RawSlice(e) : e \in UNION {[1 .. n -> C] : n \in 0 .. MaxLen}}

\* One-child containers, to nest.
Nested ==
    {RawMap([k \in {"a"} |-> l]) : l \in InnerLeaves}
        \cup {RawSlice(<<l>>) : l \in InnerLeaves}
Children == InnerLeaves \cup Nested
RawTrees == Leaves \cup MapsOver(Children) \cup SlicesOver(Children)

Contexts == {<<>>, [k \in {"user"} |-> "alice"]}

---------------------------------------------------------------------------
(* Specification Spec: a raw tree is compiled once and the renderer is     *)
(* rendered any number of times, each time with a context.                 *)

NoResult == [status |-> "none", v |-> Nil, err |-> NoErr]

IdleMain ==
    /\ raw = Nil /\ pc = "idle" /\ compiled = [v |-> Nil, err |-> NoErr]
    /\ data = <<>> /\ result = NoResult
IdleConc ==
    /\ wpc = <<>> /\ wdata = <<>> /\ wdone = <<>> /\ wout = <<>> /\ wres = <<>>
    /\ rng = 0
IdleInt == riFrom = 0 /\ riTo = 0 /\ riRes = <<>>
IdleShuf == sources = <<>> /\ invoked = <<>> /\ shufRes = <<>>
IdleAsset == perIteration = FALSE /\ assetRes = <<>>

Init ==
    /\ raw \in RawTrees
    /\ pc = "start"
    /\ compiled = [v |-> Nil, err |-> NoErr]
    /\ data = <<>>
    /\ result = NoResult
    /\ IdleConc /\ IdleInt /\ IdleShuf /\ IdleAsset

\* p, err := parseRenderer(raw)
Compile ==
    /\ pc = "start"
    /\ compiled' \in parseRenderer(raw)
    /\ pc' = "compiled"
    /\ UNCHANGED <<raw, data, result, concVars, intVars, shufVars, assetVars>>

\* The result of the call r.render(d) on the interface value r: a call on
\* the nil interface panics.
CallRender(r, d) ==
    IF r = Nil
    THEN {[status |-> "panic", v |-> Nil, err |-> NoErr]}
    ELSE {[status |-> IF o.err = NoErr THEN "ok" ELSE "err", v |-> o.v, err |-> o.err] :
            o \in render(r, d)}

\* out, err := compiled.render(d)
Render ==
    /\ pc \in {"compiled", "rendered"}
    /\ compiled.err = NoErr
    /\ \E d \in Contexts :
        /\ data' = d
        /\ result' \in CallRender(compiled.v, d)
    /\ pc' = "rendered"
    /\ UNCHANGED <<raw, compiled, concVars, intVars, shufVars, assetVars>>

Next == Compile \/ Render

Spec == Init /\ [][Next]_vars

---------------------------------------------------------------------------
(* Properties of compile and render, stated of specification Spec.         *)

\* in has a leaf of the set L, at any depth.
RECURSIVE HasLeafIn(_, _)
HasLeafIn(in, L) ==
    CASE in.t = "map" -> \E k \in DOMAIN in.m : HasLeafIn(in.m[k], L)
      [] in.t = "slice" -> \E i \in DOMAIN in.e : HasLeafIn(in.e[i], L)
      [] OTHER -> in \in L

\* out has the keys, the length and order of in, and in's leaves of an
\* unsupported type are in out, where they were.
RECURSIVE Preserves(_, _)
Preserves(in, out) ==
    CASE in.t = "map" ->
            /\ out.t = "map"
            /\ DOMAIN out.m = DOMAIN in.m
            /\ \A k \in DOMAIN in.m : Preserves(in.m[k], out.m[k])
      [] in.t = "slice" ->
            /\ out.t = "slice"
            /\ DOMAIN out.e = DOMAIN in.e
            /\ \A i \in DOMAIN in.e : Preserves(in.e[i], out.e[i])
      [] in.t = "other" -> out = in
      [] OTHER -> TRUE

\* C1: the render of a compiled map or sequence has the keys (map) or the
\* length and order (sequence) of the input, and every leaf of an
\* unsupported type is in the output under its key or position, equal to
\* the input leaf.
C1_ShapeAndPassThrough ==
    (pc = "rendered" /\ result.status = "ok" /\ raw.t \in {"map", "slice"})
        => Preserves(raw, result.v)

\* What holds of the render of a compiled map or sequence: the keys, the
\* length and the order are the input's, and nil stands where the input
\* has a leaf of an unsupported type.
RECURSIVE PreservesShape(_, _)
PreservesShape(in, out) ==
    CASE in.t = "map" ->
            /\ out.t = "map"
            /\ DOMAIN out.m = DOMAIN in.m
            /\ \A k \in DOMAIN in.m : PreservesShape(in.m[k], out.m[k])
      [] in.t = "slice" ->
            /\ out.t = "slice"
            /\ DOMAIN out.e = DOMAIN in.e
            /\ \A i \in DOMAIN in.e : PreservesShape(in.e[i], out.e[i])
      [] in.t \in {"other", "null"} -> out = Nil
      [] in.t = "string" -> out.t = "rendered"
      [] OTHER -> out = in
ShapeWithNilLeaves ==
    (pc = "rendered" /\ result.status = "ok") => PreservesShape(raw, result.v)

\* C2: compile and then render on its result never panics, whatever the
\* raw tree and the context: each ends with a value or a returned error.
C2_NeverPanics == result.status # "panic"

\* in, with each leaf of invalid syntax replaced by a template that parses.
RECURSIVE Repair(_)
Repair(in) ==
    CASE in.t = "map" -> RawMap([k \in DOMAIN in.m |-> Repair(in.m[k])])
      [] in.t = "slice" -> RawSlice([i \in DOMAIN in.e |-> Repair(in.e[i])])
      [] OTHER -> IF in \in InvalidSyntax THEN StrOK ELSE in

SyntaxErrors == {"unclosed action", "missing value for command", "function not defined"}

\* C3: compilation is fail-fast.  A tree with a string leaf of invalid
\* template syntax, at any depth, compiles to a syntax error and no
\* renderer; the same tree with those leaves replaced by valid syntax
\* compiles with no error, to a renderer (to nil for a null or unsupported root).
C3_CompileFailFast ==
    /\ (pc # "start" /\ HasLeafIn(raw, InvalidSyntax))
            => (compiled.err \in SyntaxErrors /\ compiled.v = Nil)
    /\ (pc # "start" /\ ~HasLeafIn(raw, InvalidSyntax))
            => (compiled.err = NoErr /\ (raw.t \notin {"null", "other"} => IsRenderer(compiled.v)))
    /\ \A o \in parseRenderer(Repair(raw)) :
            o.err = NoErr /\ (raw.t \notin {"null", "other"} => IsRenderer(o.v))

\* A syntax error two levels down has failed the compilation of the root.
C3_Witness ==
    /\ pc = "compiled"
    /\ raw = RawMap([k \in Keys |-> IF k = "a" THEN RawSlice(<<StrUnclosed>>) ELSE StrOK])
    /\ compiled = [v |-> Nil, err |-> "unclosed action"]

\* The containers of a renderer tree, the root included.
RECURSIVE Containers(_)
Containers(r) ==
    CASE r.t = "mapR" -> {r} \cup UNION {Containers(r.m[k]) : k \in DOMAIN r.m}
      [] r.t = "sliceR" -> {r} \cup UNION {Containers(r.e[i]) : i \in DOMAIN r.e}
      [] OTHER -> {}
ChildrenOf(r) ==
    IF r.t = "mapR" THEN {r.m[k] : k \in DOMAIN r.m} ELSE {r.e[i] : i \in DOMAIN r.e}

\* C4: rendering is fail-fast.  A map or sequence renderer, at any depth,
\* whose render ends with an error ends with the error of one of its
\* children and the value nil, never a partly filled map or sequence; and
\* it ends with an error whenever the render of one of its children does.
C4_RenderFailFast ==
    /\ result.err # NoErr => result.v = Nil
    /\ (pc = "rendered" /\ result.status # "panic") =>
        \A n \in Containers(compiled.v) :
            /\ \A o \in render(n, data) :
                o.err # NoErr =>
                    /\ o.v = Nil
                    /\ \E c \in ChildrenOf(n) :
                        IsRenderer(c) /\ [v |-> Nil, err |-> o.err] \in render(c, data)
            /\ (\E c \in ChildrenOf(n) :
                    IsRenderer(c) /\ \A p \in render(c, data) : p.err # NoErr)
                => \A o \in render(n, data) : o.err # NoErr

\* The failure of a template two levels down has failed the root's render.
C4_Witness ==
    /\ pc = "rendered"
    /\ raw = RawMap([k \in Keys |-> IF k = "a" THEN RawSlice(<<StrExecFail>>) ELSE StrOK])
    /\ result = [status |-> "err", v |-> Nil, err |-> "error calling rand_int"]

\* The fields a template source refers to.
References(src) == {FieldKey(src[i]) : i \in {j \in DOMAIN src : src[j] \in Fields}}

---------------------------------------------------------------------------
(* Specification SpecRandInt: one call of randInt on any two ints.         *)

InitRandInt ==
    /\ riFrom \in Ints /\ riTo \in Ints /\ riRes = <<>>
    /\ IdleMain /\ IdleConc /\ IdleShuf /\ IdleAsset

\* riRes = randInt(riFrom, riTo)
CallRandInt ==
    /\ riRes = <<>>
    /\ \E o \in randInt(riFrom, riTo) : riRes' = <<o>>
    /\ UNCHANGED <<riFrom, riTo, mainVars, concVars, shufVars, assetVars>>

SpecRandInt == InitRandInt /\ [][CallRandInt]_vars

\* C8: for all ints a < b, randInt(a, b) returns an int r with a <= r < b,
\* also when b - a does not fit in an int.
C8_RandIntInRange ==
    (riRes # <<>> /\ riFrom < riTo)
        => (~riRes[1].panic /\ riFrom <= riRes[1].val /\ riRes[1].val < riTo)

\* What holds of randInt: the result is in range when to - from fits in an
\* int, and the call panics when it does not.
RandIntInRangeWhenFits ==
    (riRes # <<>> /\ riFrom < riTo) =>
        IF riTo - riFrom <= MaxInt
        THEN ~riRes[1].panic /\ riFrom <= riRes[1].val /\ riRes[1].val < riTo
        ELSE riRes[1].panic

---------------------------------------------------------------------------
(* Specification SpecShuffle: calls of shuffleSources on one slice of      *)
(* candidates.  Candidate c is a closure that returns the string           *)
(* Produce(c); the slice is shuffled in place, as in the code.             *)

Produce(c) == c
EmptyString == 0

Swap(s, i, j) == [s EXCEPT ![i] = s[j], ![j] = s[i]]
\* rand.Shuffle(n, swap): for i from the last index down to the second,
\* swap(i, j) with j drawn from the indexes up to i; js holds the draws.
RECURSIVE Shuffle(_, _, _)
Shuffle(s, i, js) == IF i < 2 THEN s ELSE Shuffle(Swap(s, i, js[i]), i - 1, js)
ShuffleDraws(n) == {js \in [2 .. n -> 1 .. n] : \A i \in 2 .. n : js[i] <= i}

\* shuffleSources that calls every candidate and returns the first result.
shuffleSourcesEager(srcs) ==
    IF Len(srcs) = 0
    THEN {[sources |-> srcs, invoked |-> <<>>, ret |-> EmptyString]}
    ELSE {[sources |-> Shuffle(srcs, Len(srcs), js),
           invoked |-> Shuffle(srcs, Len(srcs), js),
           ret |-> Produce(Shuffle(srcs, Len(srcs), js)[1])] :
            js \in ShuffleDraws(Len(srcs))}
\* shuffleSources: the slice after the call, the candidates it called, in
\* order, and the string it returned.
shuffleSources(srcs) ==
    IF Len(srcs) = 0
    THEN {[sources |-> srcs, invoked |-> <<>>, ret |-> EmptyString]}
    ELSE {[sources |-> Shuffle(srcs, Len(srcs), js),
           invoked |-> <<Shuffle(srcs, Len(srcs), js)[1]>>,
           ret |-> Produce(Shuffle(srcs, Len(srcs), js)[1])] :
            js \in ShuffleDraws(Len(srcs))}

InitShuffle ==
    /\ sources \in {[i \in 1 .. n |-> i] : n \in 0 .. MaxSources}
    /\ invoked = <<>> /\ shufRes = <<>>
    /\ IdleMain /\ IdleConc /\ IdleInt /\ IdleAsset

\* shufRes = shuffleSources(sources)
CallShuffleSources ==
    /\ \E o \in shuffleSources(sources) :
        /\ sources' = o.sources
        /\ invoked' = o.invoked
        /\ shufRes' = <<o.ret>>
    /\ UNCHANGED <<mainVars, concVars, intVars, assetVars>>

SpecShuffle == InitShuffle /\ [][CallShuffleSources]_vars

Range(s) == {s[i] : i \in DOMAIN s}

\* C9: on a non-empty list shuffleSources calls exactly one candidate, a
\* candidate of the list, and returns what that candidate returned; and
\* each candidate of the list can be the one a call selects.
C9_ShuffleCallsOne ==
    /\ (shufRes # <<>> /\ sources # <<>>) =>
        /\ Len(invoked) = 1
        /\ invoked[1] \in Range(sources)
        /\ shufRes = <<Produce(invoked[1])>>
    /\ sources # <<>> =>
        /\ {o.invoked : o \in shuffleSources(sources)} = {<<c>> : c \in Range(sources)}
        /\ \A o \in shuffleSources(sources) : o.ret = Produce(o.invoked[1])

\* A call on three candidates that selected the last of them.
C9_Witness ==
    /\ Len(sources) = 3
    /\ invoked = <<3>>
    /\ shufRes = <<Produce(3)>>

---------------------------------------------------------------------------
(* Specification SpecAsset: one call of randAssetPattern.  A candidate is  *)
(* a closure: Lit(s) returns s, Hex(n) returns randHexString(n).           *)

PolicyIDLen == 56
MaxAssetNameLen == 64

Lit(s) == [kind |-> "lit", s |-> s, n |-> 0]
Hex(n) == [kind |-> "hex", s |-> "", n |-> n]

\* sources[0](): the call of a candidate.
Invoke(c) ==
    IF c.kind = "lit" THEN {TextPart(c.s)}
    ELSE {RunesPart(o.len, o.runes) : o \in randHexString(c.n)}

\* The string shuffleSources returns: rand.Shuffle yields every order, so
\* the first candidate after it is any candidate of the list.
shuffleSourcesString(srcs) ==
    IF Len(srcs) = 0 THEN {TextPart("")}
    ELSE UNION {Invoke(srcs[k]) : k \in DOMAIN srcs}

randPolicyIDPattern == shuffleSourcesString(<<Hex(PolicyIDLen), Lit("*")>>)

\* The slice randAssetNamePattern builds.  Each closure of the loop reads
\* the loop variable i when it is called, after the loop: with one i per
\* iteration (Go from 1.22 on) that is its own iteration's index, with one
\* i for the whole loop (before Go 1.22) it is the value the loop ended on.
assetNameSources(perIter) ==
    <<Lit("*")>> \o
        [k \in 1 .. MaxAssetNameLen + 1 |->
            Hex(IF perIter THEN k - 1 ELSE MaxAssetNameLen + 1)]

randAssetNamePattern(perIter) == shuffleSourcesString(assetNameSources(perIter))

randAssetPattern(perIter) ==
    {<<p, TextPart("."), n>> : p \in randPolicyIDPattern, n \in randAssetNamePattern(perIter)}

InitAsset ==
    /\ perIteration \in BOOLEAN
    /\ assetRes = <<>>
    /\ IdleMain /\ IdleConc /\ IdleInt /\ IdleShuf

\* assetRes = randAssetPattern()
CallRandAssetPattern ==
    /\ assetRes = <<>>
    /\ assetRes' \in randAssetPattern(perIteration)
    /\ UNCHANGED <<perIteration, mainVars, concVars, intVars, shufVars>>

SpecAsset == InitAsset /\ [][CallRandAssetPattern]_vars

IsWildcard(p) == p = TextPart("*")
IsHex(p, lo, hi) ==
    p.kind = "runes" /\ p.runes \subseteq HexAlphabet /\ lo <= p.n /\ p.n <= hi

\* C6: rand_asset() returns <policy>.<name>, where policy is * or 56 hex
\* characters and name is * or 0 to 64 hex characters: no name is longer
\* than 64 characters.
C6_AssetShape ==
    assetRes # <<>> =>
        /\ Len(assetRes) = 3
        /\ assetRes[2] = TextPart(".")
        /\ IsWildcard(assetRes[1]) \/ IsHex(assetRes[1], PolicyIDLen, PolicyIDLen)
        /\ IsWildcard(assetRes[3]) \/ IsHex(assetRes[3], 0, MaxAssetNameLen)

\* C10: randAssetNamePattern chooses among 65 candidates, the wildcard and
\* the hex strings of the lengths 0 to 64, and a hex string of each length
\* of 0 to 64 is a possible result.
C10_AssetNameCandidates ==
    assetRes # <<>> =>
    /\ Len(assetNameSources(perIteration)) = 65
    /\ \A n \in 0 .. MaxAssetNameLen :
        \E p \in randAssetNamePattern(perIteration) : IsHex(p, n, n)

\* What holds of the list whatever the build: 66 candidates, the wildcard
\* and 65 hex closures.
AssetNameSourcesCount ==
    /\ Len(assetNameSources(perIteration)) = 66
    /\ assetNameSources(perIteration)[1] = Lit("*")
    /\ \A k \in 2 .. 66 : assetNameSources(perIteration)[k].kind = "hex"
\* With one loop variable per iteration C6 and the lengths of C10 hold.
AssetShapePerIteration ==
    perIteration =>
        /\ C6_AssetShape
        /\ \A n \in 0 .. MaxAssetNameLen :
            \E p \in randAssetNamePattern(perIteration) : IsHex(p, n, n)

---------------------------------------------------------------------------
(* Specification SpecConc: a tree is compiled once and NumWorkers          *)
(* goroutines render it at the same time, each with its own context.  A    *)
(* step of a goroutine is one iteration of the loop of mapR.render or      *)
(* sliceR.render on the root; the tree and the random source are shared,   *)
(* out and the context are the goroutine's own.                            *)

Workers == 1 .. NumWorkers

ConcLeaves == {RawOther, RawInt, StrOK, StrVar, StrExecFail}
ConcTrees ==
    MapsOver(ConcLeaves) \cup SlicesOver(ConcLeaves)
        \cup {StrOK, StrUnclosed, RawInt,
              RawMap([k \in Keys |-> IF k = "a" THEN RawSlice(<<StrOK, StrVar>>) ELSE StrVar]),
              RawSlice(<<RawMap([k \in Keys |-> StrOK]), StrExecFail>>)}

InitConc ==
    /\ raw \in ConcTrees
    /\ pc = "start"
    /\ compiled = [v |-> Nil, err |-> NoErr]
    /\ data = <<>>
    /\ result = NoResult
    /\ wpc = [w \in Workers |-> "idle"]
    /\ wdata = [w \in Workers |-> <<>>]
    /\ wdone = [w \in Workers |-> <<>>]
    /\ wout = [w \in Workers |-> <<>>]
    /\ wres = [w \in Workers |-> <<>>]
    /\ rng = 0
    /\ IdleInt /\ IdleShuf /\ IdleAsset

\* The value has a piece that came from the random source.
RECURSIVE HasRandomPart(_)
HasRandomPart(v) ==
    CASE v.t = "map" -> \E k \in DOMAIN v.m : HasRandomPart(v.m[k])
      [] v.t = "slice" -> \E i \in DOMAIN v.e : HasRandomPart(v.e[i])
      [] v.t = "rendered" ->
            \E i \in DOMAIN v.parts : v.parts[i].kind \in {"int", "runes", "gen"}
      [] OTHER -> FALSE

\* The random source after the render of a child to o: a draw changes it.
rngAfter(state, o) ==
    IF o.err = NoErr /\ HasRandomPart(o.v) THEN (state + 1) % RngStates ELSE state

Extend(f, k, v) == [x \in DOMAIN f \cup {k} |-> IF x = k THEN v ELSE f[x]]

ChildrenMap(r) == IF r.t = "mapR" THEN r.m ELSE r.e
WithChildren(r, c) == IF r.t = "mapR" THEN mapR(c) ELSE sliceR(c)

\* The loop body that writes the rendered child back into the renderer.
storeInPlace(tree, out, k, v) ==
    [tree |-> WithChildren(tree, [ChildrenMap(tree) EXCEPT ![k] = v]),
     out |-> Extend(out, k, v)]
\* out[k] = r, out = append(out, r): the renderer m or s is only read.
store(tree, out, k, v) == [tree |-> tree, out |-> Extend(out, k, v)]

\* The keys or indexes the loop can visit next: a map's in any order, a
\* slice's in order.
NextPositions(r, done) ==
    IF r.t = "mapR" THEN DOMAIN r.m \ Range(done)
    ELSE {i \in DOMAIN r.e : i = Len(done) + 1}

\* go compiled.render(d)
Start(w) ==
    /\ pc = "compiled" /\ compiled.err = NoErr /\ IsRenderer(compiled.v)
    /\ wpc[w] = "idle"
    /\ \E d \in Contexts : wdata' = [wdata EXCEPT ![w] = d]
    /\ wpc' = [wpc EXCEPT ![w] = "running"]
    /\ UNCHANGED <<wdone, wout, wres, rng, mainVars, intVars, shufVars, assetVars>>

\* One iteration of the loop over the root's children.
Iterate(w) ==
    /\ wpc[w] = "running"
    /\ compiled.v.t \in {"mapR", "sliceR"}
    /\ \E k \in NextPositions(compiled.v, wdone[w]) :
        \E o \in renderChild(ChildrenMap(compiled.v)[k], wdata[w]) :
            /\ rng' = rngAfter(rng, o)
            /\ IF o.err # NoErr
               THEN /\ wres' = [wres EXCEPT ![w] = <<[v |-> Nil, err |-> o.err]>>]
                    /\ wpc' = [wpc EXCEPT ![w] = "done"]
                    /\ wout' = [wout EXCEPT ![w] = <<>>]
                    /\ wdone' = [wdone EXCEPT ![w] = Append(@, k)]
                    /\ UNCHANGED compiled
               ELSE /\ wout' = [wout EXCEPT ![w] = store(compiled.v, @, k, o.v).out]
                    /\ compiled' = [compiled EXCEPT !.v = store(compiled.v, wout[w], k, o.v).tree]
                    /\ wdone' = [wdone EXCEPT ![w] = Append(@, k)]
                    /\ UNCHANGED <<wres, wpc>>
    /\ UNCHANGED <<raw, pc, data, result, wdata, intVars, shufVars, assetVars>>

\* return out, nil: the loop is over.
Return(w) ==
    /\ wpc[w] = "running"
    /\ compiled.v.t \in {"mapR", "sliceR"}
    /\ NextPositions(compiled.v, wdone[w]) = {}
    /\ wres' = [wres EXCEPT ![w] =
                    <<[v |-> IF compiled.v.t = "mapR"
                             THEN [t |-> "map", m |-> wout[w]]
                             ELSE [t |-> "slice", e |-> wout[w]],
                       err |-> NoErr]>>]
    /\ wpc' = [wpc EXCEPT ![w] = "done"]
    /\ UNCHANGED <<wdata, wdone, wout, rng, mainVars, intVars, shufVars, assetVars>>

\* The render of a root that is a template or a scalar: one step.
RenderLeaf(w) ==
    /\ wpc[w] = "running"
    /\ compiled.v.t \in {"templateR", "nativeR"}
    /\ \E o \in render(compiled.v, wdata[w]) :
        /\ wres' = [wres EXCEPT ![w] = <<o>>]
        /\ rng' = rngAfter(rng, o)
    /\ wpc' = [wpc EXCEPT ![w] = "done"]
    /\ UNCHANGED <<wdata, wdone, wout, mainVars, intVars, shufVars, assetVars>>

NextConc ==
    \/ Compile
    \/ \E w \in Workers : Start(w) \/ Iterate(w) \/ Return(w) \/ RenderLeaf(w)

SpecConc == InitConc /\ [][NextConc]_vars

\* C7, the state part: the shared tree is what compile returned, and the
\* result of each finished call is a result the call can have alone on
\* that tree with its context.
C7_TreeAndResults ==
    pc = "compiled" =>
        /\ compiled \in parseRenderer(raw)
        /\ \A w \in Workers :
            wpc[w] = "done" =>
                \E c \in parseRenderer(raw) : wres[w][1] \in render(c.v, wdata[w])

\* C7, the step part: a step leaves the tree as it is, and leaves the
\* context, the progress, the output and the result of every render call
\* that did not take it as they are.
C7_StepIsolated ==
    /\ pc = "compiled" => compiled' = compiled
    /\ \A w \in Workers :
        (wpc'[w] = wpc[w] /\ wdone'[w] = wdone[w]) =>
            (wdata'[w] = wdata[w] /\ wout'[w] = wout[w] /\ wres'[w] = wres[w])

\* C7: a compiled tree is read-only under concurrent render calls: it stays
\* what compile returned, a render call writes nothing another one reads
\* but the random source, and each call's result is one it can have alone.
C7_TreeReadOnly == []C7_TreeAndResults /\ [][C7_StepIsolated]_vars

\* Two calls with different contexts have finished on the same tree, each
\* with its own output, after both had drawn from the random source.
C7_Witness ==
    /\ raw = RawMap([k \in Keys |-> IF k = "a" THEN StrVar ELSE StrOK])
    /\ wpc = [w \in Workers |-> "done"]
    /\ wdata[1] # wdata[2]
    /\ wres[1][1].err = NoErr /\ wres[2][1].err = NoErr
    /\ wres[1][1].v.m["a"] # wres[2][1].v.m["a"]
    /\ rng = 2

====
